---- MODULE Spec2Model ----
(***************************************************************************)
(* TWI (I2C) slave driver with receive and transmit FIFOs, twiSlave.c.     *)
(*                                                                         *)
(* The application calls the accessors; the TWI interrupt runs the handler *)
(* ISR(TWI_vect) to completion, once per bus event.  In the specification  *)
(* Spec every accessor call and every handled bus event is one step.       *)
(*                                                                         *)
(* TWCR is the control value last written by the program, as the set of    *)
(* the bits written as 1.  The TWI interrupt is taken only while TWIE and  *)
(* TWEN are set.  On a "data has been received" event the hardware has     *)
(* latched the received byte into TWDR before the handler runs.            *)
(*                                                                         *)
(* twiSlave.h is not among the sources: the buffer sizes are a power of    *)
(* two, 2^BufBits, and the masks are the size minus one.                   *)
(* flushTwiBuffers (twiSlave.c:97-104) has no caller and is not modelled.  *)
(***************************************************************************)
EXTENDS Integers, Sequences, FiniteSets, TLC

\* ---------------------------------------------------------------- bounds
\* Bytes offered to the two FIFOs (accepted or dropped) in one behaviour.
MaxOffered == 4

\* log2 of the capacity of each FIFO.
BufBits == 2

\* Bytes offered to the FIFOs in SpecRegs.
RegOffered == 2

\* Bytes offered to the FIFOs in SpecDrain before the application stops
\* queueing bytes for transmission.
DrainOffered == 2

\* ------------------------------------------------------------- constants
TWI_RX_BUFFER_SIZE == 2 ^ BufBits
TWI_TX_BUFFER_SIZE == 2 ^ BufBits
TWI_RX_BUFFER_MASK == TWI_RX_BUFFER_SIZE - 1
TWI_TX_BUFFER_MASK == TWI_TX_BUFFER_SIZE - 1

TWI_SRX_ADR_ACK            == 96
TWI_SRX_ADR_ACK_M_ARB_LOST == 104
TWI_SRX_GEN_ACK            == 112
TWI_SRX_GEN_ACK_M_ARB_LOST == 120
TWI_SRX_ADR_DATA_ACK       == 128
TWI_SRX_ADR_DATA_NACK      == 136
TWI_SRX_GEN_DATA_ACK       == 144
TWI_SRX_GEN_DATA_NACK      == 152
TWI_SRX_STOP_RESTART       == 160
TWI_STX_ADR_ACK            == 168
TWI_STX_ADR_ACK_M_ARB_LOST == 176
TWI_STX_DATA_ACK           == 184
TWI_STX_DATA_NACK          == 192
TWI_STX_DATA_ACK_LAST_BYTE == 200
TWI_NO_STATE               == 248
TWI_BUS_ERROR              == 0

\* The byte twiReceiveByte returns, and the handler loads, when a FIFO is
\* empty.
NoData == 136

\* Data bytes the master and the application use: 0x11 and 0x88 (a data
\* byte may equal the "no data" byte).
Bytes == {17, 136}

\* Slave address passed to twiSlaveInit: 0x50.
Addrs == {80}

\* Slave addresses passed to twiSlaveInit in SpecRegs: 0x03, 0x50, 0x7F.
RegAddrs == {3, 80, 127}

\* The slave-mode status codes twiSlave.c names, and one it does not name
\* (0x08, a master-mode status).
NamedStatusCodes ==
    {TWI_SRX_ADR_ACK, TWI_SRX_ADR_ACK_M_ARB_LOST, TWI_SRX_GEN_ACK,
     TWI_SRX_GEN_ACK_M_ARB_LOST, TWI_SRX_ADR_DATA_ACK, TWI_SRX_ADR_DATA_NACK,
     TWI_SRX_GEN_DATA_ACK, TWI_SRX_GEN_DATA_NACK, TWI_SRX_STOP_RESTART,
     TWI_STX_ADR_ACK, TWI_STX_ADR_ACK_M_ARB_LOST, TWI_STX_DATA_ACK,
     TWI_STX_DATA_NACK, TWI_STX_DATA_ACK_LAST_BYTE, TWI_NO_STATE,
     TWI_BUS_ERROR}
StatusCodes == NamedStatusCodes \cup {8}

\* Statuses at which the hardware has latched a received byte into TWDR.
DataRxStatuses == {TWI_SRX_ADR_DATA_ACK, TWI_SRX_GEN_DATA_ACK,
                   TWI_SRX_ADR_DATA_NACK, TWI_SRX_GEN_DATA_NACK}

VARIABLES rxBuf, rxHead, rxTail, txBuf, txHead, txTail,
          TWAR, TWCR, TWDR,
          ret,       \* value the last twiReceiveByte returned, -1 before
          rxIn,      \* bytes accepted into rxBuf
          rxOut,     \* bytes twiReceiveByte returned from rxBuf
          txIn,      \* bytes accepted into txBuf since the last clear
          txOut,     \* bytes the handler loaded from txBuf since then
          nOffered,  \* bytes offered to either FIFO so far
          lastTWSR,  \* status the handler last switched on, -1 before
          app        \* the application's call in progress (SpecNormal and
                     \* SpecPreempt): pc, the position in it; data, its
                     \* argument; tmphead, its local; probed, the oldest
                     \* pending byte when twiDataInReceiveBuffer last
                     \* returned true and no receive-side call followed,
                     \* -1 otherwise

vars == <<rxBuf, rxHead, rxTail, txBuf, txHead, txTail, TWAR, TWCR, TWDR,
          ret, rxIn, rxOut, txIn, txOut, nOffered, lastTWSR, app>>

rxVars == <<rxBuf, rxHead, rxTail>>
txVars == <<txBuf, txHead, txTail>>
regVars == <<TWAR, TWCR, TWDR>>
histVars == <<rxIn, rxOut, txIn, txOut>>

\* ---------------------------------------------------------------- helpers
\* x & y on non-negative integers.
RECURSIVE BitAnd(_, _)
BitAnd(x, y) ==
    IF x = 0 \/ y = 0 THEN 0
    ELSE (x % 2) * (y % 2) + 2 * BitAnd(x \div 2, y \div 2)

\* (uint8_t) x
U8(x) == x % 256

\* Control values the program writes.
CtrlInit == {"TWEN"}
CtrlAck  == {"TWEN", "TWIE", "TWINT", "TWEA"}
CtrlStop == {"TWSTO", "TWINT"}

\* No call in progress.
AppIdle == [pc |-> "idle", data |-> 0, tmphead |-> 0, probed |-> -1]

Init ==
    /\ rxBuf = [i \in 0..(TWI_RX_BUFFER_SIZE - 1) |-> 0]
    /\ rxHead = 0
    /\ rxTail = 0
    /\ txBuf = [i \in 0..(TWI_TX_BUFFER_SIZE - 1) |-> 0]
    /\ txHead = 0
    /\ txTail = 0
    /\ TWAR = 0
    /\ TWCR = {}
    /\ TWDR = 0
    /\ ret = -1
    /\ rxIn = <<>>
    /\ rxOut = <<>>
    /\ txIn = <<>>
    /\ txOut = <<>>
    /\ nOffered = 0
    /\ lastTWSR = -1
    /\ app = AppIdle

\* ------------------------------------------------------------- accessors
\* twiSlaveInit writing TWIE as 1.
twiSlaveInit_EnablesInt(adrs) ==
    /\ UNCHANGED app
    /\ TWAR' = U8(adrs * 2)
    /\ TWCR' = {"TWEN", "TWIE"}
    /\ UNCHANGED <<rxVars, txVars, TWDR, ret, histVars, nOffered, lastTWSR>>

twiSlaveInit(adrs) ==
    /\ UNCHANGED app
    /\ TWAR' = U8(adrs * 2)
    /\ TWCR' = CtrlInit
    /\ UNCHANGED <<rxVars, txVars, TWDR, ret, histVars, nOffered, lastTWSR>>

\* twiSlaveEnable writing TWIE as 0.
twiSlaveEnable_NoInt ==
    /\ UNCHANGED app
    /\ TWCR' = {"TWEN", "TWINT", "TWEA"}
    /\ UNCHANGED <<rxVars, txVars, TWAR, TWDR, ret, histVars, nOffered, lastTWSR>>

twiSlaveEnable ==
    /\ UNCHANGED app
    /\ TWCR' = CtrlAck
    /\ UNCHANGED <<rxVars, txVars, TWAR, TWDR, ret, histVars, nOffered, lastTWSR>>

\* twiTransmitByte storing at the old head instead of the new one.
twiTransmitByte_StoreAtHead(data) ==
    /\ UNCHANGED app
    /\ nOffered < MaxOffered
    /\ nOffered' = nOffered + 1
    /\ LET tmphead == BitAnd(txHead + 1, TWI_TX_BUFFER_MASK) IN
         IF tmphead = txTail
         THEN UNCHANGED <<txVars, txIn>>
         ELSE /\ txBuf' = [txBuf EXCEPT ![txHead] = data]
              /\ txHead' = tmphead
              /\ txTail' = txTail
              /\ txIn' = Append(txIn, data)
    /\ UNCHANGED <<rxVars, regVars, ret, rxIn, rxOut, txOut, lastTWSR>>

twiTransmitByte(data) ==
    /\ UNCHANGED app
    /\ nOffered < MaxOffered
    /\ nOffered' = nOffered + 1
    /\ LET tmphead == BitAnd(txHead + 1, TWI_TX_BUFFER_MASK) IN
         IF tmphead = txTail
         THEN UNCHANGED <<txVars, txIn>>
         ELSE /\ txBuf' = [txBuf EXCEPT ![tmphead] = data]
              /\ txHead' = tmphead
              /\ txTail' = txTail
              /\ txIn' = Append(txIn, data)
    /\ UNCHANGED <<rxVars, regVars, ret, rxIn, rxOut, txOut, lastTWSR>>

\* twiReceiveByte advancing the tail before the empty test takes effect.
twiReceiveByte_AdvanceOnEmpty ==
    /\ UNCHANGED app
    /\ LET newtail == BitAnd(rxTail + 1, TWI_RX_BUFFER_MASK) IN
         IF rxHead = rxTail
         THEN /\ ret' = NoData
              /\ rxTail' = newtail
              /\ UNCHANGED rxOut
         ELSE /\ rxTail' = newtail
              /\ ret' = rxBuf[newtail]
              /\ rxOut' = Append(rxOut, rxBuf[newtail])
    /\ UNCHANGED <<rxBuf, rxHead, txVars, regVars, rxIn, txIn, txOut, nOffered,
                   lastTWSR>>

twiReceiveByte ==
    /\ UNCHANGED app
    /\ IF rxHead = rxTail
       THEN /\ ret' = NoData
            /\ UNCHANGED <<rxTail, rxOut>>
       ELSE LET newtail == BitAnd(rxTail + 1, TWI_RX_BUFFER_MASK) IN
            /\ rxTail' = newtail
            /\ ret' = rxBuf[newtail]
            /\ rxOut' = Append(rxOut, rxBuf[newtail])
    /\ UNCHANGED <<rxBuf, rxHead, txVars, regVars, rxIn, txIn, txOut, nOffered,
                   lastTWSR>>

\* The two probes read the indices and write nothing: their results are
\* state functions.
twiDataInReceiveBuffer == rxHead # rxTail

twiDataInTransmitBuffer == txHead # txTail

\* twiClearOutput resetting the tail only.
twiClearOutput_TailOnly ==
    /\ UNCHANGED app
    /\ txTail' = 0
    /\ txHead' = txHead
    /\ txIn' = <<>>
    /\ txOut' = <<>>
    /\ UNCHANGED <<rxVars, txBuf, regVars, ret, rxIn, rxOut, nOffered, lastTWSR>>

twiClearOutput ==
    /\ UNCHANGED app
    /\ txTail' = 0
    /\ txHead' = 0
    /\ txIn' = <<>>
    /\ txOut' = <<>>
    /\ UNCHANGED <<rxVars, txBuf, regVars, ret, rxIn, rxOut, nOffered, lastTWSR>>

\* twiStuffRxBuf without the free-space test.
StuffRxBuf_NoFullTest(data) ==
    LET tmphead == BitAnd(rxHead + 1, TWI_RX_BUFFER_MASK) IN
      /\ rxBuf' = [rxBuf EXCEPT ![tmphead] = data]
      /\ rxHead' = tmphead
      /\ rxTail' = rxTail
      /\ rxIn' = Append(rxIn, data)

\* The body of twiStuffRxBuf, shared by the application's call and the
\* handler's call.
StuffRxBuf(data) ==
    LET tmphead == BitAnd(rxHead + 1, TWI_RX_BUFFER_MASK) IN
      IF tmphead = rxTail
      THEN UNCHANGED <<rxVars, rxIn>>
      ELSE /\ rxBuf' = [rxBuf EXCEPT ![tmphead] = data]
           /\ rxHead' = tmphead
           /\ rxTail' = rxTail
           /\ rxIn' = Append(rxIn, data)

twiStuffRxBuf(data) ==
    /\ UNCHANGED app
    /\ nOffered < MaxOffered
    /\ nOffered' = nOffered + 1
    /\ StuffRxBuf(data)
    /\ UNCHANGED <<txVars, regVars, ret, rxOut, txIn, txOut, lastTWSR>>

\* ------------------------------------------------------- interrupt handler
\* TWDR as the handler finds it: the received byte d at a "data has been
\* received" status, the register's previous content otherwise.
HwLatch(status, d) == IF status \in DataRxStatuses THEN d ELSE TWDR

\* The handler with 0xC8 in the stop/restart arm instead of the error arm.
IsrTWCR_LastByteAcks(status) ==
    CASE status = TWI_SRX_ADR_ACK -> CtrlAck
      [] status \in {TWI_SRX_ADR_DATA_ACK, TWI_SRX_GEN_DATA_ACK} -> CtrlAck
      [] status = TWI_SRX_GEN_ACK -> CtrlAck
      [] status \in {TWI_STX_ADR_ACK, TWI_STX_DATA_ACK} -> CtrlAck
      [] status = TWI_STX_DATA_NACK -> CtrlAck
      [] status \in {TWI_SRX_STOP_RESTART, TWI_STX_DATA_ACK_LAST_BYTE} -> CtrlAck
      [] status \in {TWI_SRX_ADR_DATA_NACK, TWI_SRX_GEN_DATA_NACK,
                     TWI_NO_STATE,
                     TWI_BUS_ERROR} -> CtrlStop
      [] OTHER -> CtrlAck

\* The handler with a default arm that forces a stop.
IsrTWCR_DefaultStops(status) ==
    CASE status = TWI_SRX_ADR_ACK -> CtrlAck
      [] status \in {TWI_SRX_ADR_DATA_ACK, TWI_SRX_GEN_DATA_ACK} -> CtrlAck
      [] status = TWI_SRX_GEN_ACK -> CtrlAck
      [] status \in {TWI_STX_ADR_ACK, TWI_STX_DATA_ACK} -> CtrlAck
      [] status = TWI_STX_DATA_NACK -> CtrlAck
      [] status = TWI_SRX_STOP_RESTART -> CtrlAck
      [] status \in {TWI_SRX_ADR_DATA_NACK, TWI_SRX_GEN_DATA_NACK,
                     TWI_STX_DATA_ACK_LAST_BYTE, TWI_NO_STATE,
                     TWI_BUS_ERROR} -> CtrlStop
      [] OTHER -> CtrlStop

\* The handler forcing a stop when the master does not acknowledge.
IsrTWCR_NackStops(status) ==
    CASE status = TWI_SRX_ADR_ACK -> CtrlAck
      [] status \in {TWI_SRX_ADR_DATA_ACK, TWI_SRX_GEN_DATA_ACK} -> CtrlAck
      [] status = TWI_SRX_GEN_ACK -> CtrlAck
      [] status \in {TWI_STX_ADR_ACK, TWI_STX_DATA_ACK} -> CtrlAck
      [] status = TWI_STX_DATA_NACK -> CtrlStop
      [] status = TWI_SRX_STOP_RESTART -> CtrlAck
      [] status \in {TWI_SRX_ADR_DATA_NACK, TWI_SRX_GEN_DATA_NACK,
                     TWI_STX_DATA_ACK_LAST_BYTE, TWI_NO_STATE,
                     TWI_BUS_ERROR} -> CtrlStop
      [] OTHER -> CtrlAck

\* The control value the handler writes, by status (the switch's TWCR
\* assignments).
IsrTWCR(status) ==
    CASE status = TWI_SRX_ADR_ACK -> CtrlAck
      [] status \in {TWI_SRX_ADR_DATA_ACK, TWI_SRX_GEN_DATA_ACK} -> CtrlAck
      [] status = TWI_SRX_GEN_ACK -> CtrlAck
      [] status \in {TWI_STX_ADR_ACK, TWI_STX_DATA_ACK} -> CtrlAck
      [] status = TWI_STX_DATA_NACK -> CtrlAck
      [] status = TWI_SRX_STOP_RESTART -> CtrlAck
      [] status \in {TWI_SRX_ADR_DATA_NACK, TWI_SRX_GEN_DATA_NACK,
                     TWI_STX_DATA_ACK_LAST_BYTE, TWI_NO_STATE,
                     TWI_BUS_ERROR} -> CtrlStop
      [] OTHER -> CtrlAck

\* The receive arm storing the byte at the old head.
IsrReceive_StoreAtHead(d) ==
    /\ nOffered < MaxOffered
    /\ nOffered' = nOffered + 1
    /\ LET tmphead == BitAnd(rxHead + 1, TWI_RX_BUFFER_MASK) IN
         IF tmphead = rxTail
         THEN UNCHANGED <<rxVars, rxIn>>
         ELSE /\ rxBuf' = [rxBuf EXCEPT ![rxHead] = d]
              /\ rxHead' = tmphead
              /\ rxTail' = rxTail
              /\ rxIn' = Append(rxIn, d)
    /\ TWDR' = d
    /\ UNCHANGED <<txVars, txIn, txOut, rxOut>>

\* case TWI_SRX_ADR_DATA_ACK, TWI_SRX_GEN_DATA_ACK: twiStuffRxBuf( TWDR )
IsrReceive(d) ==
    /\ nOffered < MaxOffered
    /\ nOffered' = nOffered + 1
    /\ StuffRxBuf(d)
    /\ TWDR' = d
    /\ UNCHANGED <<txVars, txIn, txOut, rxOut>>

\* The transmit arm loading TWDR before it advances the tail.
IsrTransmit_LoadBeforeAdvance ==
    /\ IF txHead # txTail
       THEN LET newtail == BitAnd(txTail + 1, TWI_TX_BUFFER_MASK) IN
            /\ txTail' = newtail
            /\ TWDR' = txBuf[txTail]
            /\ txOut' = Append(txOut, txBuf[txTail])
       ELSE /\ TWDR' = NoData
            /\ UNCHANGED <<txTail, txOut>>
    /\ UNCHANGED <<rxVars, txBuf, txHead, rxIn, rxOut, txIn, nOffered>>

\* The transmit arm loading the next byte without advancing the tail.
IsrTransmit_NoAdvance ==
    /\ IF txHead # txTail
       THEN /\ TWDR' = txBuf[BitAnd(txTail + 1, TWI_TX_BUFFER_MASK)]
            /\ UNCHANGED <<txTail, txOut>>
       ELSE /\ TWDR' = NoData
            /\ UNCHANGED <<txTail, txOut>>
    /\ UNCHANGED <<rxVars, txBuf, txHead, rxIn, rxOut, txIn, nOffered>>

\* case TWI_STX_ADR_ACK, TWI_STX_DATA_ACK: load the next byte, or 0x88
IsrTransmit ==
    /\ IF txHead # txTail
       THEN LET newtail == BitAnd(txTail + 1, TWI_TX_BUFFER_MASK) IN
            /\ txTail' = newtail
            /\ TWDR' = txBuf[newtail]
            /\ txOut' = Append(txOut, txBuf[newtail])
       ELSE /\ TWDR' = NoData
            /\ UNCHANGED <<txTail, txOut>>
    /\ UNCHANGED <<rxVars, txBuf, txHead, rxIn, rxOut, txIn, nOffered>>

\* The handler emptying the transmit buffer when the master does not
\* acknowledge.
IsrNoData_NackFlushes(status, d) ==
    /\ TWDR' = HwLatch(status, d)
    /\ txTail' = IF status = TWI_STX_DATA_NACK THEN txHead ELSE txTail
    /\ UNCHANGED <<rxVars, txBuf, txHead, histVars, nOffered>>

\* Every other case: only TWCR is written.
IsrNoData(status, d) ==
    /\ TWDR' = HwLatch(status, d)
    /\ UNCHANGED <<rxVars, txVars, histVars, nOffered>>

\* ISR( TWI_vect ) with TWSR = status; d is the byte on the bus at a
\* data-received status.
ISR(status, d) ==
    /\ UNCHANGED app
    /\ {"TWEN", "TWIE"} \subseteq TWCR
    /\ TWCR' = IsrTWCR(status)
    /\ CASE status \in {TWI_SRX_ADR_DATA_ACK, TWI_SRX_GEN_DATA_ACK} ->
              IsrReceive(d)
         [] status \in {TWI_STX_ADR_ACK, TWI_STX_DATA_ACK} -> IsrTransmit
         [] OTHER -> IsrNoData(status, d)
    /\ lastTWSR' = status
    /\ UNCHANGED <<TWAR, ret>>

Next ==
    \/ \E adrs \in Addrs : twiSlaveInit(adrs)
    \/ twiSlaveEnable
    \/ \E data \in Bytes : twiTransmitByte(data)
    \/ twiReceiveByte
    \/ twiClearOutput
    \/ \E data \in Bytes : twiStuffRxBuf(data)
    \/ \E status \in StatusCodes :
          \E d \in IF status \in DataRxStatuses THEN Bytes ELSE {TWDR} :
             ISR(status, d)

\* -------------------------------------------- accessors, access by access
\* The accessors as the handler can preempt them: one step per access to
\* memory the handler shares.  The probed field survives every call that is
\* not receive-side.
Return(probed) == [AppIdle EXCEPT !.probed = probed]

\* twiTransmitByte, line 145: tmphead = ( txHead + 1 ) & TWI_TX_BUFFER_MASK
Tx_Call(data) ==
    /\ app.pc = "idle"
    /\ nOffered < MaxOffered
    /\ nOffered' = nOffered + 1
    /\ app' = [app EXCEPT !.pc = "tx_test", !.data = data,
                          !.tmphead = BitAnd(txHead + 1, TWI_TX_BUFFER_MASK)]
    /\ UNCHANGED <<rxVars, txVars, regVars, ret, histVars, lastTWSR>>

\* twiTransmitByte, line 148: if ( tmphead == txTail ) return
Tx_Test ==
    /\ app.pc = "tx_test"
    /\ app' = IF app.tmphead = txTail THEN Return(app.probed)
              ELSE [app EXCEPT !.pc = "tx_store"]
    /\ UNCHANGED <<rxVars, txVars, regVars, ret, histVars, nOffered, lastTWSR>>

\* twiTransmitByte, line 154: txBuf[ tmphead ] = data
Tx_Store ==
    /\ app.pc = "tx_store"
    /\ txBuf' = [txBuf EXCEPT ![app.tmphead] = app.data]
    /\ app' = [app EXCEPT !.pc = "tx_head"]
    /\ UNCHANGED <<rxVars, txHead, txTail, regVars, ret, histVars, nOffered,
                   lastTWSR>>

\* twiTransmitByte, line 157: txHead = tmphead
Tx_Head ==
    /\ app.pc = "tx_head"
    /\ txHead' = app.tmphead
    /\ txIn' = Append(txIn, app.data)
    /\ app' = Return(app.probed)
    /\ UNCHANGED <<rxVars, txBuf, txTail, regVars, ret, rxIn, rxOut, txOut,
                   nOffered, lastTWSR>>

\* twiDataInReceiveBuffer testing the head against 0 instead of the tail.
Rx_Probe_HeadNonZero ==
    /\ app.pc = "idle"
    /\ app' = [app EXCEPT !.probed =
                 IF rxHead # 0
                 THEN rxBuf[BitAnd(rxTail + 1, TWI_RX_BUFFER_MASK)]
                 ELSE -1]
    /\ UNCHANGED <<rxVars, txVars, regVars, ret, histVars, nOffered, lastTWSR>>

\* twiDataInReceiveBuffer, line 190: return rxHead != rxTail
Rx_Probe ==
    /\ app.pc = "idle"
    /\ app' = [app EXCEPT !.probed =
                 IF rxHead # rxTail
                 THEN rxBuf[BitAnd(rxTail + 1, TWI_RX_BUFFER_MASK)]
                 ELSE -1]
    /\ UNCHANGED <<rxVars, txVars, regVars, ret, histVars, nOffered, lastTWSR>>

\* twiReceiveByte, line 171: if ( rxHead == rxTail ) return 0x88
Rx_Test ==
    /\ app.pc = "idle"
    /\ IF rxHead = rxTail
       THEN /\ ret' = NoData
            /\ app' = Return(-1)
       ELSE /\ ret' = ret
            /\ app' = [app EXCEPT !.pc = "rx_tail"]
    /\ UNCHANGED <<rxVars, txVars, regVars, histVars, nOffered, lastTWSR>>

\* twiReceiveByte, line 177: rxTail = ( rxTail + 1 ) & TWI_RX_BUFFER_MASK
Rx_Tail ==
    /\ app.pc = "rx_tail"
    /\ rxTail' = BitAnd(rxTail + 1, TWI_RX_BUFFER_MASK)
    /\ app' = [app EXCEPT !.pc = "rx_load"]
    /\ UNCHANGED <<rxBuf, rxHead, txVars, regVars, ret, histVars, nOffered,
                   lastTWSR>>

\* twiReceiveByte reading the slot at the head.
Rx_Load_AtHead ==
    /\ app.pc = "rx_load"
    /\ ret' = rxBuf[rxHead]
    /\ rxOut' = Append(rxOut, rxBuf[rxHead])
    /\ app' = Return(-1)
    /\ UNCHANGED <<rxVars, txVars, regVars, rxIn, txIn, txOut, nOffered,
                   lastTWSR>>

\* twiReceiveByte, line 179: return rxBuf[ rxTail ]
Rx_Load ==
    /\ app.pc = "rx_load"
    /\ ret' = rxBuf[rxTail]
    /\ rxOut' = Append(rxOut, rxBuf[rxTail])
    /\ app' = Return(-1)
    /\ UNCHANGED <<rxVars, txVars, regVars, rxIn, txIn, txOut, nOffered,
                   lastTWSR>>

\* twiClearOutput, line 210: txTail = 0
Clr_Tail ==
    /\ app.pc = "idle"
    /\ txTail' = 0
    /\ app' = [app EXCEPT !.pc = "clr_head"]
    /\ UNCHANGED <<rxVars, txBuf, txHead, regVars, ret, histVars, nOffered,
                   lastTWSR>>

\* twiClearOutput, line 211: txHead = 0
Clr_Head ==
    /\ app.pc = "clr_head"
    /\ txHead' = 0
    /\ txIn' = <<>>
    /\ txOut' = <<>>
    /\ app' = Return(app.probed)
    /\ UNCHANGED <<rxVars, txBuf, txTail, regVars, ret, rxIn, rxOut, nOffered,
                   lastTWSR>>

\* twiStuffRxBuf called by the application, line 225:
\* tmphead = ( rxHead + 1 ) & TWI_RX_BUFFER_MASK
St_Call(data) ==
    /\ app.pc = "idle"
    /\ nOffered < MaxOffered
    /\ nOffered' = nOffered + 1
    /\ app' = [app EXCEPT !.pc = "st_test", !.data = data, !.probed = -1,
                          !.tmphead = BitAnd(rxHead + 1, TWI_RX_BUFFER_MASK)]
    /\ UNCHANGED <<rxVars, txVars, regVars, ret, histVars, lastTWSR>>

\* twiStuffRxBuf, line 228: if ( tmphead == rxTail ) return
St_Test ==
    /\ app.pc = "st_test"
    /\ app' = IF app.tmphead = rxTail THEN Return(-1)
              ELSE [app EXCEPT !.pc = "st_store"]
    /\ UNCHANGED <<rxVars, txVars, regVars, ret, histVars, nOffered, lastTWSR>>

\* twiStuffRxBuf, line 234: rxBuf[ tmphead ] = data
St_Store ==
    /\ app.pc = "st_store"
    /\ rxBuf' = [rxBuf EXCEPT ![app.tmphead] = app.data]
    /\ app' = [app EXCEPT !.pc = "st_head"]
    /\ UNCHANGED <<rxHead, rxTail, txVars, regVars, ret, histVars, nOffered,
                   lastTWSR>>

\* twiStuffRxBuf, line 237: rxHead = tmphead
St_Head ==
    /\ app.pc = "st_head"
    /\ rxHead' = app.tmphead
    /\ rxIn' = Append(rxIn, app.data)
    /\ app' = Return(-1)
    /\ UNCHANGED <<rxBuf, rxTail, txVars, regVars, ret, rxOut, txIn, txOut,
                   nOffered, lastTWSR>>

\* The bus events that move a byte, and the bus error.
PreemptStatusCodes ==
    {TWI_SRX_ADR_DATA_ACK, TWI_SRX_GEN_DATA_ACK, TWI_STX_ADR_ACK,
     TWI_STX_DATA_ACK, TWI_BUS_ERROR}

\* twiTransmitByte, twiReceiveByte and the receive probe, preempted by the
\* handler between any two of their steps.
NextNormal ==
    \/ app.pc = "idle" /\ \E adrs \in Addrs : twiSlaveInit(adrs)
    \/ app.pc = "idle" /\ twiSlaveEnable
    \/ \E data \in Bytes : Tx_Call(data)
    \/ Tx_Test
    \/ Tx_Store
    \/ Tx_Head
    \/ Rx_Probe
    \/ Rx_Test
    \/ Rx_Tail
    \/ Rx_Load
    \/ \E status \in PreemptStatusCodes :
          \E d \in IF status \in DataRxStatuses THEN Bytes ELSE {TWDR} :
             ISR(status, d)

\* Every accessor, preempted by the handler between any two of its steps.
NextPreempt ==
    \/ app.pc = "idle" /\ \E adrs \in Addrs : twiSlaveInit(adrs)
    \/ app.pc = "idle" /\ twiSlaveEnable
    \/ \E data \in Bytes : Tx_Call(data)
    \/ Tx_Test
    \/ Tx_Store
    \/ Tx_Head
    \/ Rx_Probe
    \/ Rx_Test
    \/ Rx_Tail
    \/ Rx_Load
    \/ Clr_Tail
    \/ Clr_Head
    \/ \E data \in Bytes : St_Call(data)
    \/ St_Test
    \/ St_Store
    \/ St_Head
    \/ \E status \in PreemptStatusCodes :
          \E d \in IF status \in DataRxStatuses THEN Bytes ELSE {TWDR} :
             ISR(status, d)

\* Whole calls and events as in Next, with more addresses and fewer bytes.
NextRegs ==
    \/ \E adrs \in RegAddrs : twiSlaveInit(adrs)
    \/ twiSlaveEnable
    \/ nOffered < RegOffered /\ \E data \in Bytes : twiTransmitByte(data)
    \/ twiReceiveByte
    \/ twiClearOutput
    \/ nOffered < RegOffered /\ \E data \in Bytes : twiStuffRxBuf(data)
    \/ \E status \in StatusCodes :
          /\ status \in {TWI_SRX_ADR_DATA_ACK, TWI_SRX_GEN_DATA_ACK} =>
               nOffered < RegOffered
          /\ \E d \in IF status \in DataRxStatuses THEN Bytes ELSE {TWDR} :
                ISR(status, d)

\* The application has queued its last byte for transmission.
DrainPhase == nOffered >= DrainOffered

\* A data-requested event (0xA8 or 0xB8) is handled.
DataRequested ==
    \E status \in {TWI_STX_ADR_ACK, TWI_STX_DATA_ACK} : ISR(status, TWDR)

\* Whole calls and events as in Next; once the application has queued its
\* last byte it calls neither twiTransmitByte, twiClearOutput nor
\* twiSlaveInit, and no error-class event occurs.
NextDrain ==
    \/ ~DrainPhase /\ \E adrs \in Addrs : twiSlaveInit(adrs)
    \/ twiSlaveEnable
    \/ ~DrainPhase /\ \E data \in Bytes : twiTransmitByte(data)
    \/ twiReceiveByte
    \/ ~DrainPhase /\ twiClearOutput
    \/ \E data \in Bytes : twiStuffRxBuf(data)
    \/ \E status \in StatusCodes :
          /\ DrainPhase =>
               status \notin {TWI_SRX_ADR_DATA_NACK, TWI_SRX_GEN_DATA_NACK,
                              TWI_STX_DATA_ACK_LAST_BYTE, TWI_NO_STATE,
                              TWI_BUS_ERROR}
          /\ \E d \in IF status \in DataRxStatuses THEN Bytes ELSE {TWDR} :
                ISR(status, d)


\* ------------------------------------------------------ derived notions
\* Bytes pending in each FIFO: (head - tail) modulo the capacity.
RxCount == (rxHead - rxTail + TWI_RX_BUFFER_SIZE) % TWI_RX_BUFFER_SIZE
TxCount == (txHead - txTail + TWI_TX_BUFFER_SIZE) % TWI_TX_BUFFER_SIZE

\* The pending bytes, oldest first, as they lie in the buffers.
RxPending ==
    [i \in 1..RxCount |-> rxBuf[(rxTail + i) % TWI_RX_BUFFER_SIZE]]
TxPending ==
    [i \in 1..TxCount |-> txBuf[(txTail + i) % TWI_TX_BUFFER_SIZE]]

\* Steps, by who takes them.
AppStep ==
    \/ \E adrs \in Addrs : twiSlaveInit(adrs)
    \/ twiSlaveEnable
    \/ \E data \in Bytes : twiTransmitByte(data)
    \/ twiReceiveByte
    \/ twiClearOutput
    \/ \E data \in Bytes : twiStuffRxBuf(data)
IsrStep ==
    \E status \in StatusCodes : \E d \in Bytes \cup {TWDR} : ISR(status, d)

\* The step is the handler's run at the given status with byte d on the bus.
\* (The handler's run records its status, which is tested first.)
Handles(status, d) == lastTWSR' = status /\ ISR(status, d)

RxDataAck == {TWI_SRX_ADR_DATA_ACK, TWI_SRX_GEN_DATA_ACK}
TxRequest == {TWI_STX_ADR_ACK, TWI_STX_DATA_ACK}
ErrorClass == {TWI_SRX_ADR_DATA_NACK, TWI_SRX_GEN_DATA_NACK,
               TWI_STX_DATA_ACK_LAST_BYTE, TWI_NO_STATE, TWI_BUS_ERROR}
\* The status codes the handler has a case label for.
Handled == {96, 112, 128, 144, 160, 168, 184, 192, 136, 152, 200, 248, 0}
ArmedWithAck == {"TWEN", "TWIE", "TWINT", "TWEA"}
ForcedStop == {"TWSTO", "TWINT"}

\* ---------------------------------------------------------------- claims

\* C1: FIFO order, both buffers.  The bytes popped so far are the first of
\* the bytes accepted, in the order they were accepted, and the bytes still
\* pending in the buffer are exactly the rest, in order: nothing is lost,
\* duplicated or reordered, also after the indices have wrapped.
C1_FifoOrder ==
    /\ Len(rxOut) <= Len(rxIn)
    /\ rxOut = SubSeq(rxIn, 1, Len(rxOut))
    /\ RxPending = SubSeq(rxIn, Len(rxOut) + 1, Len(rxIn))
    /\ Len(txOut) <= Len(txIn)
    /\ txOut = SubSeq(txIn, 1, Len(txOut))
    /\ TxPending = SubSeq(txIn, Len(txOut) + 1, Len(txIn))

\* As many bytes as the buffer has slots went through the transmit FIFO,
\* not all equal: the head and the tail have both wrapped.
C1_Witness ==
    /\ Len(txOut) >= TWI_TX_BUFFER_SIZE
    /\ txOut = txIn
    /\ \E i \in 1..(Len(txOut) - 1) : txOut[i] # txOut[i + 1]

\* C2: a push on a buffer that holds capacity-1 bytes (twiTransmitByte on
\* the transmit buffer; twiStuffRxBuf or the handler's data-received arm on
\* the receive buffer) changes neither index nor any slot; the pending bytes
\* and the record of accepted bytes stay as they were.
C2_OverflowDropsNewest ==
    [][ /\ ( /\ TxCount = TWI_TX_BUFFER_SIZE - 1
             /\ \E data \in Bytes : twiTransmitByte(data) )
           => /\ UNCHANGED <<txBuf, txHead, txTail>>
              /\ TxPending' = TxPending
              /\ txIn' = txIn
        /\ ( /\ RxCount = TWI_RX_BUFFER_SIZE - 1
             /\ \/ \E data \in Bytes : twiStuffRxBuf(data)
                \/ \E status \in RxDataAck, d \in Bytes : Handles(status, d) )
           => /\ UNCHANGED <<rxBuf, rxHead, rxTail>>
              /\ RxPending' = RxPending
              /\ rxIn' = rxIn
      ]_vars

\* The receive buffer is full, nothing was ever read from it or offered to
\* the transmit buffer, and one byte more was offered than it holds.
C2_Witness ==
    /\ RxCount = TWI_RX_BUFFER_SIZE - 1
    /\ Len(rxIn) = TWI_RX_BUFFER_SIZE - 1
    /\ rxOut = <<>>
    /\ txIn = <<>>
    /\ \A i \in DOMAIN txBuf : txBuf[i] = 0
    /\ nOffered = TWI_RX_BUFFER_SIZE

\* C3: twiReceiveByte on an empty receive buffer returns 0x88 and changes
\* neither rxHead, rxTail nor rxBuf (so the buffer stays empty however
\* often it is called).
C3_ReceiveUnderflow ==
    [][ (rxHead = rxTail /\ twiReceiveByte)
          => /\ ret' = NoData
             /\ UNCHANGED <<rxHead, rxTail, rxBuf>>
             /\ rxHead' = rxTail'
      ]_vars

\* 0x88 was returned although no 0x88 was ever read out of the buffer, and
\* the buffer is empty away from index 0.
C3_Witness ==
    /\ ret = NoData
    /\ rxHead = rxTail
    /\ rxHead # 0
    /\ Len(rxOut) >= 1
    /\ \A i \in 1..Len(rxOut) : rxOut[i] # NoData

\* C4: after twiClearOutput the probe twiDataInTransmitBuffer is false, and
\* when one byte b has been queued since and none loaded, a data-requested
\* event loads b into the data register.
C4_ClearResets ==
    [][ /\ twiClearOutput => ~twiDataInTransmitBuffer'
        /\ ( /\ txOut = <<>>
             /\ Len(txIn) = 1
             /\ \E status \in TxRequest : Handles(status, TWDR) )
           => TWDR' = txIn[1]
      ]_vars

\* One byte was queued and loaded since a clear that left a different byte
\* behind in another slot.
C4_Witness ==
    /\ Len(txIn) = 1
    /\ txOut = txIn
    /\ TWDR = txIn[1]
    /\ lastTWSR \in TxRequest
    /\ \E i \in DOMAIN txBuf : i # 1 /\ txBuf[i] \notin {0, txIn[1]}

\* C5: a data-received-with-ack event (0x80 or 0x90) carrying d appends d
\* as the newest pending byte when the receive buffer holds fewer than
\* capacity-1 bytes, and leaves the receive buffer unchanged when it is
\* full; it never touches the transmit buffer and re-arms with ack.
\* twiReceiveByte on a non-empty buffer returns the oldest pending byte.
C5_HandlerReceive ==
    [][ /\ \A status \in RxDataAck, d \in Bytes :
             Handles(status, d) =>
               /\ IF RxCount < TWI_RX_BUFFER_SIZE - 1
                  THEN /\ RxPending' = Append(RxPending, d)
                       /\ rxTail' = rxTail
                       /\ twiDataInReceiveBuffer'
                  ELSE UNCHANGED <<rxBuf, rxHead, rxTail>>
               /\ UNCHANGED <<txBuf, txHead, txTail>>
               /\ TWCR' = ArmedWithAck
        /\ (twiDataInReceiveBuffer /\ twiReceiveByte)
             => /\ ret' = Head(RxPending)
                /\ RxPending' = Tail(RxPending)
      ]_vars

\* The only byte ever offered to a FIFO came with a data-received event and
\* twiReceiveByte has returned it.
C5_Witness ==
    /\ lastTWSR \in RxDataAck
    /\ nOffered = 1
    /\ rxIn = <<TWDR>>
    /\ rxOut = rxIn
    /\ ret = TWDR
    /\ TWCR = ArmedWithAck

\* C6: an addressed-as-transmitter (0xA8) or byte-acknowledged (0xB8) event
\* advances txTail by one modulo the capacity and loads the oldest pending
\* byte when the transmit buffer is non-empty, and loads 0x88 and leaves
\* txHead and txTail alone when it is empty; the receive buffer is not
\* modified.
C6_HandlerTransmit ==
    [][ \A status \in TxRequest :
          Handles(status, TWDR) =>
            /\ IF twiDataInTransmitBuffer
               THEN /\ txTail' = (txTail + 1) % TWI_TX_BUFFER_SIZE
                    /\ txHead' = txHead
                    /\ TWDR' = txIn[Len(txOut) + 1]
                    /\ TxPending' = Tail(TxPending)
               ELSE /\ TWDR' = NoData
                    /\ UNCHANGED <<txHead, txTail>>
            /\ UNCHANGED <<rxBuf, rxHead, rxTail>>
      ]_vars

\* The handler has loaded a second byte, other than 0x88, at a
\* byte-acknowledged event, with bytes pending in the receive buffer.
C6_Witness ==
    /\ lastTWSR = TWI_STX_DATA_ACK
    /\ Len(txOut) >= 2
    /\ TWDR = txOut[Len(txOut)]
    /\ TWDR # NoData
    /\ twiDataInReceiveBuffer

\* C7: at each of the statuses 0x88, 0x98, 0xC8, 0xF8 and 0x00 the handler
\* writes the forced-stop control value (TWSTO and TWINT, nothing else) and
\* writes no index, no buffer slot and not the data register, which holds
\* what the hardware put there.
C7_ErrorBranch ==
    [][ \A status \in {136, 152, 200, 248, 0}, d \in Bytes :
          Handles(status, d) =>
            /\ TWCR' = ForcedStop
            /\ TWCR' \cap {"TWEN", "TWIE", "TWEA"} = {}
            /\ UNCHANGED <<rxHead, rxTail, txHead, txTail, rxBuf, txBuf>>
            /\ TWDR' = HwLatch(status, d)
      ]_vars

\* A bus error was handled with bytes pending in both buffers.
C7_Witness ==
    /\ lastTWSR = TWI_BUS_ERROR
    /\ TWCR = ForcedStop
    /\ twiDataInReceiveBuffer
    /\ twiDataInTransmitBuffer

\* C8: at a status that has no case label the handler re-arms with ack
\* (TWEN, TWIE, TWINT, TWEA; no TWSTO) and writes no index, no buffer slot
\* and not the data register.
C8_UnrecognizedStatus ==
    [][ \A status \in StatusCodes \ Handled :
          Handles(status, TWDR) =>
            /\ TWCR' = ArmedWithAck
            /\ "TWSTO" \notin TWCR'
            /\ UNCHANGED <<rxHead, rxTail, txHead, txTail, rxBuf, txBuf, TWDR>>
      ]_vars

\* A status without a case label was handled with bytes pending in both
\* buffers.
C8_Witness ==
    /\ lastTWSR \in StatusCodes \ Handled
    /\ TWCR = ArmedWithAck
    /\ twiDataInReceiveBuffer
    /\ twiDataInTransmitBuffer

\* C9 as claimed: a bus error (0x00), not-acked data (0x88, 0x98 and the
\* master's NACK 0xC0) and every unrecognized status make the handler force
\* a stop.
C9_AllForceStop ==
    [][ \A status \in {0, 136, 152, 192} \cup (StatusCodes \ Handled),
           d \in Bytes :
          Handles(status, d) => TWCR' = ForcedStop
      ]_vars

\* C9 as amended: a bus error (0x00) and received data that was not
\* acknowledged (0x88, 0x98) make the handler force a stop; the master's
\* NACK of a transmitted byte (0xC0) and every unrecognized status make it
\* re-arm with ack.
C9_ForceStopOrRearm ==
    [][ /\ \A status \in {0, 136, 152}, d \in Bytes :
             Handles(status, d) => TWCR' = ForcedStop
        /\ \A status \in {192} \cup (StatusCodes \ Handled) :
             Handles(status, TWDR) => TWCR' = ArmedWithAck
      ]_vars

\* The master's NACK was handled, with bytes still pending for it, and the
\* interface is armed with ack.
C9_Witness ==
    /\ lastTWSR = TWI_STX_DATA_NACK
    /\ TWCR = ArmedWithAck
    /\ twiDataInTransmitBuffer
    /\ Len(txOut) >= 1

\* C10 as claimed: rxHead and txTail are written only by the handler, rxTail
\* and txHead only by the application's accessors.
C10_SingleWriter ==
    [][ /\ AppStep => UNCHANGED <<rxHead, txTail>>
        /\ IsrStep => UNCHANGED <<rxTail, txHead>>
      ]_vars

\* C11: twiTransmitByte and twiReceiveByte preempted by the handler between
\* any two of their accesses.  The bytes twiReceiveByte returned are the
\* first of the bytes accepted into the receive buffer, in order, and the
\* bytes the handler loaded are the first of the bytes twiTransmitByte
\* accepted, in order; what lies pending in each buffer is exactly the rest
\* (while twiReceiveByte has advanced rxTail and not yet read the slot, the
\* slot at rxTail still holds the byte it is about to return).
C11_NoLossUnderPreemption ==
    /\ Len(rxOut) <= Len(rxIn)
    /\ rxOut = SubSeq(rxIn, 1, Len(rxOut))
    /\ IF app.pc = "rx_load"
       THEN /\ Len(rxOut) < Len(rxIn)
            /\ rxBuf[rxTail] = rxIn[Len(rxOut) + 1]
            /\ RxPending = SubSeq(rxIn, Len(rxOut) + 2, Len(rxIn))
       ELSE RxPending = SubSeq(rxIn, Len(rxOut) + 1, Len(rxIn))
    /\ Len(txOut) <= Len(txIn)
    /\ txOut = SubSeq(txIn, 1, Len(txOut))
    /\ TxPending = SubSeq(txIn, Len(txOut) + 1, Len(txIn))

\* twiReceiveByte has advanced rxTail and not yet read the slot, and the
\* receive buffer is full behind it: the handler accepted a byte after the
\* tail moved.
C11_Witness ==
    /\ app.pc = "rx_load"
    /\ RxCount = TWI_RX_BUFFER_SIZE - 1
    /\ lastTWSR \in RxDataAck

\* C12 as claimed: once twiClearOutput has returned, also when a
\* data-requested event was handled between its two index writes,
\* twiDataInTransmitBuffer is false.
C12_ClearRecovers ==
    [][ Clr_Head => ~twiDataInTransmitBuffer' ]_vars

\* C15: when twiDataInReceiveBuffer returned true and the next receive-side
\* call is twiReceiveByte, whatever events the handler served in between,
\* twiReceiveByte does not take the empty-buffer return, advances rxTail by
\* one and returns the byte that was the oldest pending at the probe.
C15_ProbeThenReceive ==
    [][ /\ (app.probed # -1 /\ Rx_Test) => app'.pc = "rx_tail"
        /\ (app.probed # -1 /\ Rx_Tail)
             => rxTail' = (rxTail + 1) % TWI_RX_BUFFER_SIZE
        /\ (app.probed # -1 /\ Rx_Load) => ret' = app.probed
      ]_vars

\* After a probe that returned true the handler accepted another, different
\* byte, and twiReceiveByte has advanced rxTail to the probed byte.
C15_Witness ==
    /\ app.pc = "rx_load"
    /\ app.probed # -1
    /\ lastTWSR \in RxDataAck
    /\ RxCount >= 1
    /\ rxBuf[rxTail] = app.probed
    /\ rxBuf[rxHead] # app.probed
    /\ TWDR = rxBuf[rxHead]

\* C16 as claimed: with twiStuffRxBuf called by the application and
\* data-received events handled between its steps, the bytes twiReceiveByte
\* returns are the bytes accepted by the handler or by the call, each once,
\* in the order they were accepted, with their own values.
C16_StuffKeepsBytes ==
    /\ Len(rxOut) <= Len(rxIn)
    /\ rxOut = SubSeq(rxIn, 1, Len(rxOut))
    /\ app.pc = "idle" => RxPending = SubSeq(rxIn, Len(rxOut) + 1, Len(rxIn))

\* C18 as claimed: every index is within 0..capacity-1 and the occupancy
\* (head - tail) mod capacity of each buffer is the number of bytes accepted
\* minus the number taken (since the last clear for the transmit buffer),
\* at most capacity-1.  A byte counts as taken when the tail has advanced;
\* the state between the two writes of twiClearOutput is left out.
C18_IndexOccupancy ==
    /\ rxHead \in 0..(TWI_RX_BUFFER_SIZE - 1)
    /\ rxTail \in 0..(TWI_RX_BUFFER_SIZE - 1)
    /\ txHead \in 0..(TWI_TX_BUFFER_SIZE - 1)
    /\ txTail \in 0..(TWI_TX_BUFFER_SIZE - 1)
    /\ RxCount <= TWI_RX_BUFFER_SIZE - 1
    /\ TxCount <= TWI_TX_BUFFER_SIZE - 1
    /\ RxCount = Len(rxIn) - Len(rxOut) - (IF app.pc = "rx_load" THEN 1 ELSE 0)
    /\ app.pc # "clr_head" => TxCount = Len(txIn) - Len(txOut)

\* The control value leaves the interface disarmed: no interrupt, no ack.
Disarmed == TWCR \cap {"TWIE", "TWEA"} = {}

\* C13: twiSlaveInit(a) leaves a shifted left by one in TWAR, general-call
\* bit 0, and a control value with TWIE and TWEA clear; while TWIE is clear
\* the handler serves no event; twiSlaveEnable leaves TWEN, TWIE and TWEA
\* set and TWSTO clear; neither call writes a buffer index.
C13_InitThenEnable ==
    [][ /\ \A adrs \in RegAddrs :
             twiSlaveInit(adrs) =>
               /\ TWAR' = 2 * adrs
               /\ TWAR' % 2 = 0
               /\ Disarmed'
               /\ UNCHANGED <<rxHead, rxTail, txHead, txTail>>
        /\ "TWIE" \notin TWCR => ~IsrStep
        /\ twiSlaveEnable =>
               /\ {"TWEN", "TWIE", "TWEA"} \subseteq TWCR'
               /\ "TWSTO" \notin TWCR'
               /\ UNCHANGED <<rxHead, rxTail, txHead, txTail>>
      ]_vars

\* twiSlaveInit(0x7F) was called after events had been served and bytes
\* buffered: TWAR holds 0xFE and the interface is disarmed.
C13_Witness ==
    /\ \E adrs \in RegAddrs : adrs > 80 /\ TWAR = 2 * adrs
    /\ TWCR = CtrlInit
    /\ lastTWSR # -1
    /\ twiDataInReceiveBuffer
    /\ txTail # 0

\* C14: the error arm leaves the interface disarmed; while it is disarmed
\* and twiSlaveEnable is not called it stays disarmed and the handler
\* serves no event; twiSlaveEnable can be called in every state and leaves
\* the armed-with-ack control value, under which the handler serves events.
C14_NotSelfHealing ==
    /\ [](ENABLED twiSlaveEnable)
    /\ [](TWCR = ArmedWithAck => ENABLED ISR(TWI_SRX_ADR_ACK, TWDR))
    /\ [][ /\ \A status \in ErrorClass, d \in Bytes :
                Handles(status, d) => Disarmed'
           /\ (Disarmed /\ ~twiSlaveEnable) => (Disarmed' /\ ~IsrStep)
           /\ twiSlaveEnable => TWCR' = ArmedWithAck
         ]_vars

\* The last event served was a bus error, with bytes pending in both
\* buffers, and the interface is armed again.
C14_Witness ==
    /\ lastTWSR = TWI_BUS_ERROR
    /\ TWCR = ArmedWithAck
    /\ RxCount >= 1
    /\ TxCount >= 1
    /\ Len(txOut) >= 1

\* C17: at each of the statuses 0x60, 0x70, 0xA0 and 0xC0 the handler
\* writes the armed-with-ack control value and nothing else: no index, no
\* buffer slot, not the data register; the bytes pending in the transmit
\* buffer stay pending.
C17_PureRearm ==
    [][ \A status \in {TWI_SRX_ADR_ACK, TWI_SRX_GEN_ACK,
                         TWI_SRX_STOP_RESTART, TWI_STX_DATA_NACK} :
          Handles(status, TWDR) =>
            /\ TWCR' = ArmedWithAck
            /\ UNCHANGED <<rxHead, rxTail, txHead, txTail, rxBuf, txBuf,
                           TWDR, TWAR, ret>>
            /\ TxPending' = TxPending
            /\ RxPending' = RxPending
      ]_vars

\* The master's NACK was handled with two bytes still pending for it.
C17_Witness ==
    /\ lastTWSR = TWI_STX_DATA_NACK
    /\ TxCount = 2
    /\ RxCount >= 1
    /\ TWCR = ArmedWithAck

\* C19: once the application has queued its last byte and the interface is
\* armed, with data-requested events handled whenever they can be, the
\* transmit buffer becomes and stays empty with every accepted byte loaded,
\* in order; a data-requested event on the empty buffer loads 0x88 and
\* leaves txHead = txTail.
C19_TransmitDrains ==
    /\ (DrainPhase /\ TWCR = ArmedWithAck)
          ~> [](~twiDataInTransmitBuffer /\ txOut = txIn)
    /\ [][ ( /\ ~twiDataInTransmitBuffer
             /\ \E status \in TxRequest : Handles(status, TWDR) )
           => (TWDR' = NoData /\ txHead' = txTail')
         ]_vars

\* Every byte offered went to the transmit buffer and was loaded, none of
\* them 0x88, and a further data-requested event loaded 0x88.
C19_Witness ==
    /\ DrainPhase
    /\ TWCR = ArmedWithAck
    /\ ~twiDataInTransmitBuffer
    /\ Len(txOut) = DrainOffered
    /\ \A i \in 1..Len(txOut) : txOut[i] # NoData
    /\ TWDR = NoData
    /\ lastTWSR \in TxRequest

\* C20 as claimed: at 0xA8 and at its arbitration-lost variant 0xB0 the
\* handler loads the data register with the oldest pending byte of the
\* transmit buffer, or with 0x88 when it is empty.
C20_AddressedLoadsData ==
    [][ \A status \in {TWI_STX_ADR_ACK, TWI_STX_ADR_ACK_M_ARB_LOST} :
          Handles(status, TWDR) =>
            TWDR' = IF twiDataInTransmitBuffer
                    THEN txIn[Len(txOut) + 1]
                    ELSE NoData
      ]_vars

Spec == Init /\ [][Next]_vars
SpecNormal == Init /\ [][NextNormal]_vars
SpecPreempt == Init /\ [][NextPreempt]_vars
SpecRegs == Init /\ [][NextRegs]_vars
\* The master keeps reading: a data-requested event that can be handled is
\* handled.
SpecDrain == Init /\ [][NextDrain]_vars /\ WF_vars(DataRequested)
====
